---- MODULE Spec2Model ----
(***************************************************************************)
(* Model of docx_tex_validator: the extractor registry, the validation run *)
(* of DocxValidator.validate (context establishment, per-requirement       *)
(* scoring with a conversation handle, fallback mode, failure isolation)   *)
(* and the weighted aggregation into a ValidationReport.                   *)
(*                                                                         *)
(* Representation choices:                                                 *)
(*  - a Judge response text is a sequence of tokens; "\n" is the newline   *)
(*    token, "Result:", "Confidence:", "Reasoning:" are the markers;       *)
(*  - confidences are in tenths (0.8 is 8, 1.5 is 15);                     *)
(*  - requirement scores are integers, the normalized score is a reduced   *)
(*    fraction [num, den];                                                 *)
(*  - a conversation handle (message history) is 0 when empty and the      *)
(*    number of the Judge call that returned it otherwise: the code only   *)
(*    ever tests a handle for emptiness and passes it on.                  *)
(***************************************************************************)
EXTENDS Integers, Sequences, FiniteSets, TLC

VARIABLES
    parser_name,      \* DocxValidator._parser_name (None or a configured name)
    file_path,        \* the file handed to validate
    specifications,   \* the requirement list handed to validate
    pc,               \* position of the run
    parser,           \* the extractor selected by validate
    doc_structure,    \* the Document Structure returned by parser.parse
    message_history,  \* the current conversation handle
    use_context_method,
    results,          \* the Judgments appended so far
    calls,            \* every call made to backend.run_sync, in order
    report,           \* the ValidationReport returned, or NoReport
    error,            \* the exception propagated to the caller, or NoError
    judge,            \* what the Judge of this run may do on a scoring call
    runs,             \* the concurrent runs of validate, when there are several
    environ,          \* os.environ, the environment variables of the process
    backends          \* the model backends constructed in the process, in order

vars == <<parser_name, file_path, specifications, pc, parser, doc_structure,
          message_history, use_context_method, results, calls, report, error,
          judge, runs, environ, backends>>

\* the environment of a single run: left alone by every step of validate
env == <<judge, runs, environ, backends>>

----------------------------------------------------------------------------
(* Bounds and input pools *)

MaxSpecs == 3

None == "None"
NoReport == [kind |-> "NoReport"]
NoError == "NoError"
NoDoc == [kind |-> "NoDoc"]

\* the environment in which none of the variables read by the backends is set
NoEnviron ==
    [GITHUB_TOKEN |-> None, OPENAI_API_KEY |-> None, OPENAI_BASE_URL |-> None,
     NEBULAONE_API_KEY |-> None, NEBULAONE_BASE_URL |-> None]
EmptyHistory == 0

\* name, description, category (None when absent), score
SpecPool ==
    { [name |-> "a", description |-> "desc a", category |-> None,    score |-> 1],
      [name |-> "b", description |-> "desc b", category |-> "style", score |-> 1],
      [name |-> "c", description |-> "desc c", category |-> "style", score |-> -1] }

\* the requirements of the runs checked for termination
LivePool == { r \in SpecPool : r.name \in { "a", "c" } }

RECURSIVE SeqsUpTo(_, _)
SeqsUpTo(S, n) ==
    IF n = 0 THEN { <<>> }
    ELSE LET shorter == SeqsUpTo(S, n - 1)
         IN  shorter \cup { Append(s, x) : s \in { t \in shorter : Len(t) = n - 1 }, x \in S }

SpecLists == SeqsUpTo(SpecPool, MaxSpecs)

LiveSpecLists == SeqsUpTo(LivePool, MaxSpecs)

\* suffix as written in the path, whether the path exists, whether reading
\* it succeeds (no I/O error), whether the content can be interpreted by the
\* extractor that reads it
File(nm, sfx, ex, rd, ok) ==
    [name |-> nm, suffix |-> sfx, exists |-> ex, readable |-> rd, valid |-> ok]

FilePool ==
    { File("report.docx", ".docx", TRUE,  TRUE, TRUE),
      File("gone.docx",   ".docx", FALSE, TRUE, TRUE),
      File("broken.DOCX", ".DOCX", TRUE,  TRUE, FALSE),
      File("paper.pdf",   ".pdf",  TRUE,  TRUE, TRUE),
      File("page.html",   ".html", TRUE,  TRUE, FALSE) }

ParserNames == { None, "DOCX", "html", "pdf" }

\* the paths and configured names of the runs checked for the registry
Suffixes ==
    { ".docx", ".DOCX", ".html", ".HTML", ".htm", ".tex", ".Tex", ".latex", ".pdf", "" }

RegistryFiles ==
    { File("document", sfx, ex, rd, ok) :
        sfx \in Suffixes, ex \in BOOLEAN, rd \in BOOLEAN, ok \in BOOLEAN }

RegistryNames ==
    { None, "docx", "DOCX", "html", "HTML", "latex", "LaTeX", "pdf" }

----------------------------------------------------------------------------
(* Extractor registry *)

Lower(s) ==
    CASE s = "DOCX"   -> "docx"
      [] s = ".PDF"   -> ".pdf"
      [] s = "HTML"   -> "html"
      [] s = "LaTeX"  -> "latex"
      [] s = ".DOCX"  -> ".docx"
      [] s = ".HTML"  -> ".html"
      [] s = ".Tex"   -> ".tex"
      [] OTHER        -> s

\* registration order of PARSERS
PARSERS == << "docx", "html", "latex" >>

PARSER_KEYS == { PARSERS[k] : k \in 1..Len(PARSERS) }

\* the hypertext extractor recognising ".html" only
supports_extension_NoHtm(p, extension) ==
    CASE p = "docx"  -> Lower(extension) = ".docx"
      [] p = "html"  -> Lower(extension) = ".html"
      [] p = "latex" -> Lower(extension) \in { ".tex", ".latex" }
      [] OTHER       -> FALSE

supports_extension(p, extension) ==
    CASE p = "docx"  -> Lower(extension) = ".docx"
      [] p = "html"  -> Lower(extension) \in { ".html", ".htm" }
      [] p = "latex" -> Lower(extension) \in { ".tex", ".latex" }
      [] OTHER       -> FALSE

\* get_parser comparing the name as written
get_parser_CaseSensitive(name) ==
    IF name \notin PARSER_KEYS
    THEN [ok |-> FALSE, error |-> "ValueError: Unknown parser", available |-> PARSERS]
    ELSE [ok |-> TRUE, parser |-> name]

\* get_parser: the extractor, or the ValueError it raises, whose message
\* lists the registered names
get_parser(name) ==
    IF Lower(name) \notin PARSER_KEYS
    THEN [ok |-> FALSE, error |-> "ValueError: Unknown parser", available |-> PARSERS]
    ELSE [ok |-> TRUE, parser |-> Lower(name)]

test_extensions == << ".docx", ".html", ".htm", ".tex", ".latex" >>

\* _get_all_extensions: the test extensions some registered extractor supports
get_all_extensions ==
    SelectSeq(test_extensions,
              LAMBDA ext : \E k \in 1..Len(PARSERS) : supports_extension(PARSERS[k], ext))

\* detect_parser: first registered extractor supporting the lowered suffix,
\* or the ValueError whose message lists the supported extensions
detect_parser(file) ==
    LET extension == Lower(file.suffix)
        hits == { k \in 1..Len(PARSERS) : supports_extension(PARSERS[k], extension) }
    IN  IF hits = {}
        THEN [ok |-> FALSE, error |-> "ValueError: No parser found",
              supported |-> get_all_extensions]
        ELSE [ok |-> TRUE, parser |-> PARSERS[CHOOSE k \in hits : \A j \in hits : k <= j]]

\* the exception class of an error
ErrorKind(e) ==
    IF e \in { "ValueError: Unknown parser", "ValueError: No parser found",
               "ValueError: extension not supported", "ValueError: Failed to parse" }
    THEN "ValueError" ELSE e

\* validate_file testing the extension before the existence
validate_file_ExtensionFirst(p, file) ==
    IF ~supports_extension(p, Lower(file.suffix)) THEN "ValueError: extension not supported"
    ELSE IF ~file.exists THEN "FileNotFoundError"
    ELSE NoError

\* BaseParser.validate_file: existence first, then extension support
validate_file(p, file) ==
    IF ~file.exists THEN "FileNotFoundError"
    ELSE IF ~supports_extension(p, Lower(file.suffix)) THEN "ValueError: extension not supported"
    ELSE NoError

\* parse without the validate_file call
parse_NoValidate(p, file) ==
    IF ~file.readable \/ ~file.valid THEN [ok |-> FALSE, error |-> "ValueError: Failed to parse"]
    ELSE [ok |-> TRUE, structure |-> [file_path |-> file.name, document_type |-> p]]

\* parser.parse: validate_file, then read and interpret the content; any
\* exception of the read or of the interpretation is raised as ValueError
parse(p, file) ==
    LET v == validate_file(p, file)
    IN  IF v # NoError THEN [ok |-> FALSE, error |-> v]
        ELSE IF ~file.readable \/ ~file.valid THEN [ok |-> FALSE, error |-> "ValueError: Failed to parse"]
        ELSE [ok |-> TRUE,
              structure |-> [file_path |-> file.name, document_type |-> p]]

\* json.dumps(doc_structure, indent=2, default=str)
Serialize(doc) == [json |-> doc]

----------------------------------------------------------------------------
(* Prompts.  A prompt is the record of what its f-string embeds; structure *)
(* is the set of serialized Document Structures appearing in it.           *)

\* _setup_document_context, the framing prompt
ContextPrompt(doc) ==
    [template |-> "context_setup", name |-> None, description |-> None,
     category |-> None, structure |-> { Serialize(doc) }]

\* _validate_spec_with_context, the scoring prompt (document not repeated)
ContextValidationPrompt(spec) ==
    [template |-> "with_context", name |-> spec.name, description |-> spec.description,
     category |-> spec.category, structure |-> { }]

\* the legacy prompt without the document
LegacyPrompt_NoDocument(doc, spec) ==
    [template |-> "legacy", name |-> spec.name, description |-> spec.description,
     category |-> None, structure |-> { }]

\* _validate_spec, the legacy prompt (name, description, document)
LegacyPrompt(doc, spec) ==
    [template |-> "legacy", name |-> spec.name, description |-> spec.description,
     category |-> None, structure |-> { Serialize(doc) }]

----------------------------------------------------------------------------
(* Judge responses *)

NL == "\n"

WellFormedPass == << "Result:", "PASS", NL, "Confidence:", "0.9", NL, "Reasoning:", "ok" >>
WellFormedFail == << "Result:", "FAIL", NL, "Confidence:", "0.9", NL, "Reasoning:", "missing" >>
NoResultLine   == << "PASS" >>
NoMarkers      == << "unclear" >>

\* what one call of the Judge does: raise, or return a text and a handle
\* that is empty or not
Raises == [raised |-> TRUE, data |-> << >>, empty |-> TRUE]
Returns(text, isEmpty) == [raised |-> FALSE, data |-> text, empty |-> isEmpty]

ContextOutcomes ==
    { Raises, Returns(<< "received" >>, FALSE), Returns(<< "received" >>, TRUE) }

ScoreOutcomes ==
    { Raises,
      Returns(WellFormedPass, FALSE), Returns(WellFormedPass, TRUE),
      Returns(WellFormedFail, FALSE), Returns(NoResultLine, FALSE) }

\* Response texts built from a result line, a confidence line and a closing
\* part, each of them possibly absent
ResultLines ==
    { << >>, << "Result:", "PASS", NL >>, << "Result:", "FAIL", NL >>,
      << "Result:", "PASS/FAIL", NL >>, << "Result:", "UNCLEAR", NL >> }

ConfidenceLines ==
    { << >>, << "Confidence:", "0.9", NL >>, << "Confidence:", "1.5", NL >>,
      << "Confidence:", "-0.2", NL >>, << "Confidence:", "high", NL >> }

ClosingParts ==
    { << >>, << "Reasoning:", "ok" >>, << "Reasoning:", "would", "PASS" >>,
      << "unclear" >>, << "PASS" >> }

MakeText(r, c, g) == r \o c \o g

ResponseTexts ==
    { MakeText(r, c, g) : r \in ResultLines, c \in ConfidenceLines, g \in ClosingParts }

\* the Judge of the runs checked for response parsing
ParseOutcomes == { Raises } \cup { Returns(t, FALSE) : t \in ResponseTexts }

----------------------------------------------------------------------------
(* Response parsing *)

Contains(text, tok) == \E i \in 1..Len(text) : text[i] = tok

FirstIndex(text, tok) ==
    CHOOSE i \in 1..Len(text) : text[i] = tok /\ \A j \in 1..(i - 1) : text[j] # tok

\* text.split(sep)[0]
SplitHead(text, sep) ==
    IF Contains(text, sep) THEN SubSeq(text, 1, FirstIndex(text, sep) - 1) ELSE text

\* text.split(sep)[1], defined when sep occurs in text
SplitSecond(text, sep) ==
    SplitHead(SubSeq(text, FirstIndex(text, sep) + 1, Len(text)), sep)

RECURSIVE Strip(_)
Strip(text) ==
    IF text = << >> THEN text
    ELSE IF Head(text) = NL THEN Strip(Tail(text))
    ELSE IF text[Len(text)] = NL THEN Strip(SubSeq(text, 1, Len(text) - 1))
    ELSE text

\* "PASS" in tok.upper()
UpperHasPASS(tok) == tok \in { "PASS", "pass", "PASS/FAIL", "PASSED" }

\* the FAIL test as a comparison with the whole token
UpperHasFAIL_ExactToken(tok) == tok = "FAIL"

\* "FAIL" in tok.upper()
UpperHasFAIL(tok) == tok \in { "FAIL", "fail", "PASS/FAIL", "FAILED" }

\* float(tok) in tenths; tokens outside the domain raise ValueError
FloatTenths ==
    [ t \in { "0.0", "0.5", "0.9", "1.0", "1.5", "-0.2" } |->
        CASE t = "0.0" -> 0 [] t = "0.5" -> 5 [] t = "0.9" -> 9
          [] t = "1.0" -> 10 [] t = "1.5" -> 15 [] t = "-0.2" -> -2 ]

DefaultConfidence == 8

\* the confidence extracted from the text
Confidence(text) ==
    IF ~Contains(text, "Confidence:") THEN DefaultConfidence
    ELSE LET conf_str == Strip(SplitHead(SplitSecond(text, "Confidence:"), NL))
         IN  IF Len(conf_str) = 1 /\ conf_str[1] \in DOMAIN FloatTenths
             THEN FloatTenths[conf_str[1]]
             ELSE DefaultConfidence

\* reasoning or response_text
Reasoning(text) ==
    LET reasoning == IF Contains(text, "Reasoning:")
                     THEN Strip(SplitSecond(text, "Reasoning:"))
                     ELSE << >>
    IN  IF reasoning # << >> THEN reasoning ELSE text

\* the except branch leaving confidence to the field default 1.0
ErrorResult_DefaultConfidence(spec, e) ==
    [spec_name |-> spec.name, passed |-> FALSE, confidence |-> 10,
     reasoning |-> << "Validation error:", e >>]

\* the except branch dropping str(e) from the reasoning
ErrorResult_NoDescription(spec, e) ==
    [spec_name |-> spec.name, passed |-> FALSE, confidence |-> 0,
     reasoning |-> << "Validation error:" >>]

\* the synthesized Judgment of the except branch
ErrorResult(spec, e) ==
    [spec_name |-> spec.name, passed |-> FALSE, confidence |-> 0,
     reasoning |-> << "Validation error:", e >>]

\* the parsing block with a ValidationResult that accepts any confidence
ParseResponse_NoRangeCheck(spec, text) ==
    LET hasPass == \E i \in 1..Len(text) : UpperHasPASS(text[i])
    IN  IF hasPass /\ ~Contains(text, "Result:")
        THEN [ok |-> FALSE, error |-> "IndexError"]
        ELSE LET passed ==
                    hasPass /\
                    LET line == SplitHead(SplitSecond(text, "Result:"), NL)
                    IN  ~\E i \in 1..Len(line) : UpperHasFAIL(line[i])
             IN  [ok |-> TRUE,
                  result |-> [spec_name |-> spec.name, passed |-> passed,
                              confidence |-> Confidence(text),
                              reasoning |-> Reasoning(text)]]

\* the parsing block of _validate_spec / _validate_spec_with_context and the
\* ValidationResult constructor (confidence ge=0.0, le=1.0)
\* the parse that clamps the confidence into the range
ParseResponse_ClampsConfidence(spec, text) ==
    LET hasPass == \E i \in 1..Len(text) : UpperHasPASS(text[i])
    IN  IF hasPass /\ ~Contains(text, "Result:")
        THEN [ok |-> FALSE, error |-> "IndexError"]
        ELSE LET passed ==
                    hasPass /\
                    LET line == SplitHead(SplitSecond(text, "Result:"), NL)
                    IN  ~\E i \in 1..Len(line) : UpperHasFAIL(line[i])
                 confidence == Confidence(text)
             IN  [ok |-> TRUE,
                  result |-> [spec_name |-> spec.name, passed |-> passed,
                              confidence |-> IF confidence < 0 THEN 0
                                             ELSE IF confidence > 10 THEN 10
                                             ELSE confidence,
                              reasoning |-> Reasoning(text)]]

ParseResponse(spec, text) ==
    LET hasPass == \E i \in 1..Len(text) : UpperHasPASS(text[i])
    IN  IF hasPass /\ ~Contains(text, "Result:")
        THEN [ok |-> FALSE, error |-> "IndexError"]
        ELSE LET passed ==
                    hasPass /\
                    LET line == SplitHead(SplitSecond(text, "Result:"), NL)
                    IN  ~\E i \in 1..Len(line) : UpperHasFAIL(line[i])
                 confidence == Confidence(text)
             IN  IF confidence < 0 \/ confidence > 10
                 THEN [ok |-> FALSE, error |-> "ValidationError"]
                 ELSE [ok |-> TRUE,
                       result |-> [spec_name |-> spec.name, passed |-> passed,
                                   confidence |-> confidence,
                                   reasoning |-> Reasoning(text)]]

----------------------------------------------------------------------------
(* Judge calls *)

\* run_sync that does not pass message_history on to the agent
run_sync_DropsHistory(prompt, history, o, n) ==
    [prompt |-> prompt, message_history |-> EmptyHistory, raised |-> o.raised,
     data |-> o.data,
     all_messages |-> IF o.raised \/ o.empty THEN EmptyHistory ELSE n]

\* backend.run_sync(agent, prompt, message_history): the record of the call
\* the Judge receives and of what it did.  n is the number of the call.
run_sync(prompt, history, o, n) ==
    [prompt |-> prompt, message_history |-> history, raised |-> o.raised,
     data |-> o.data,
     all_messages |-> IF o.raised \/ o.empty THEN EmptyHistory ELSE n]

\* the context call sent with a handle
setup_document_context_SendsHandle(doc, o, n) ==
    LET response == run_sync(ContextPrompt(doc), n, o, n)
    IN  [message_history |-> IF response.raised THEN EmptyHistory
                             ELSE response.all_messages,
         call |-> response]

\* _setup_document_context: the handle returned, [] when the call raises
setup_document_context(doc, o, n) ==
    LET response == run_sync(ContextPrompt(doc), EmptyHistory, o, n)
    IN  [message_history |-> IF response.raised THEN EmptyHistory
                             ELSE response.all_messages,
         call |-> response]

\* legacy scoring sent with the context-mode prompt
validate_spec_ContextPrompt(doc, spec, o, n) ==
    LET response == run_sync(ContextValidationPrompt(spec), EmptyHistory, o, n)
        parsed   == ParseResponse(spec, response.data)
    IN  [result |-> IF response.raised THEN ErrorResult(spec, "JudgeError")
                    ELSE IF ~parsed.ok THEN ErrorResult(spec, parsed.error)
                    ELSE parsed.result,
         call |-> response]

\* _validate_spec: legacy scoring, document in the prompt, no handle
validate_spec(doc, spec, o, n) ==
    LET response == run_sync(LegacyPrompt(doc, spec), EmptyHistory, o, n)
        parsed   == ParseResponse(spec, response.data)
    IN  [result |-> IF response.raised THEN ErrorResult(spec, "JudgeError")
                    ELSE IF ~parsed.ok THEN ErrorResult(spec, parsed.error)
                    ELSE parsed.result,
         call |-> response]

\* scoring that takes the updated handle before the response is parsed
validate_spec_with_context_EagerHandle(spec, history, doc, o, n) ==
    IF history = EmptyHistory
    THEN LET legacy == validate_spec(doc, spec, o, n)
         IN  [result |-> legacy.result, message_history |-> history,
              call |-> legacy.call]
    ELSE LET response == run_sync(ContextValidationPrompt(spec), history, o, n)
             parsed   == ParseResponse(spec, response.data)
         IN  IF response.raised
             THEN [result |-> ErrorResult(spec, "JudgeError"),
                   message_history |-> history, call |-> response]
             ELSE IF ~parsed.ok
             THEN [result |-> ErrorResult(spec, parsed.error),
                   message_history |-> response.all_messages, call |-> response]
             ELSE [result |-> parsed.result,
                   message_history |-> response.all_messages, call |-> response]

\* _validate_spec_with_context: scoring with the current handle
validate_spec_with_context(spec, history, doc, o, n) ==
    IF history = EmptyHistory
    THEN LET legacy == validate_spec(doc, spec, o, n)
         IN  [result |-> legacy.result, message_history |-> history,
              call |-> legacy.call]
    ELSE LET response == run_sync(ContextValidationPrompt(spec), history, o, n)
             parsed   == ParseResponse(spec, response.data)
         IN  IF response.raised
             THEN [result |-> ErrorResult(spec, "JudgeError"),
                   message_history |-> history, call |-> response]
             ELSE IF ~parsed.ok
             THEN [result |-> ErrorResult(spec, parsed.error),
                   message_history |-> history, call |-> response]
             ELSE [result |-> parsed.result,
                   message_history |-> response.all_messages, call |-> response]

----------------------------------------------------------------------------
(* Aggregation *)

RECURSIVE Sum(_)
\* sum(...) of a sequence of numbers
Sum(seq) ==
    IF seq = << >> THEN 0 ELSE Head(seq) + Sum(Tail(seq))

\* results.append(result) inserting at the front
AppendResult_Prepend(rs, r) == << r >> \o rs

\* results.append(result)
AppendResult(rs, r) == Append(rs, r)

\* the count taken over the failed results
PassedCount_CountsFailed(rs) ==
    Sum([k \in 1..Len(rs) |-> IF rs[k].passed THEN 0 ELSE 1])

\* passed_count = sum(1 for r in results if r.passed)
PassedCount(rs) ==
    Sum([k \in 1..Len(rs) |-> IF rs[k].passed THEN 1 ELSE 0])

\* result_map = {result.spec_name: result for result in results}
\* the mapping keeping the first Judgment of a name
ResultMap_FirstWins(rs) ==
    [ nm \in { rs[k].spec_name : k \in 1..Len(rs) } |->
        rs[CHOOSE k \in 1..Len(rs) :
              /\ rs[k].spec_name = nm
              /\ \A j \in 1..(k - 1) : rs[j].spec_name # nm] ]

ResultMap(rs) ==
    [ nm \in { rs[k].spec_name : k \in 1..Len(rs) } |->
        rs[CHOOSE k \in 1..Len(rs) :
              /\ rs[k].spec_name = nm
              /\ \A j \in (k + 1)..Len(rs) : rs[j].spec_name # nm] ]

\* the total taken over the positive weights only
TotalScoreAvailable_PositiveOnly(specs) ==
    Sum([k \in 1..Len(specs) |-> IF specs[k].score > 0 THEN specs[k].score ELSE 0])

\* total_score_available = sum(spec.score for spec in specifications)
TotalScoreAvailable(specs) ==
    Sum([k \in 1..Len(specs) |-> specs[k].score])

\* the achieved sum without its filter
AchievedScore_NoFilter(specs, result_map) ==
    Sum([k \in 1..Len(specs) |-> specs[k].score])

\* achieved_score = sum(spec.score for spec in specifications
\*                      if result_map[spec.name].passed)
AchievedScore(specs, result_map) ==
    Sum([k \in 1..Len(specs) |->
            IF result_map[specs[k].name].passed THEN specs[k].score ELSE 0])

Abs(x) == IF x < 0 THEN -x ELSE x

RECURSIVE GCD(_, _)
GCD(a, b) == IF b = 0 THEN a ELSE GCD(b, a % b)

\* the quotient with the sign of the divisor applied to a positive divisor
Divide_WrongSign(a, b) ==
    LET g == GCD(Abs(a), Abs(b))
        n == IF b < 0 THEN a ELSE -a
    IN  [num |-> n \div g, den |-> Abs(b) \div g]

\* a / b for b # 0, as a reduced fraction with a positive denominator
Divide(a, b) ==
    LET g == GCD(Abs(a), Abs(b))
        n == IF b < 0 THEN -a ELSE a
    IN  [num |-> n \div g, den |-> Abs(b) \div g]

Zero == [num |-> 0, den |-> 1]

\* the ratio guarded against a zero total only
Score_NonZeroGuard(achieved, total) ==
    IF total # 0 THEN Divide(achieved, total) ELSE Zero

\* score = achieved / total if total > 0 else 0.0
Score(achieved, total) ==
    IF total > 0 THEN Divide(achieved, total) ELSE Zero

\* failed_count = total_specs - passed_count
FailedCount(total_specs, passed_count) == total_specs - passed_count

\* the ValidationReport built at the end of validate
BuildReport(file, specs, rs) ==
    LET total     == TotalScoreAvailable(specs)
        achieved  == AchievedScore(specs, ResultMap(rs))
        passed    == PassedCount(rs)
    IN  [file_path |-> file.name,
         results |-> rs,
         total_specs |-> Len(specs),
         passed_count |-> passed,
         failed_count |-> FailedCount(Len(specs), passed),
         score |-> Score(achieved, total),
         total_score_available |-> total,
         achieved_score |-> achieved]

----------------------------------------------------------------------------
(* The run *)

\* the state of a run before __init__
Fresh ==
    /\ pc = "construct"
    /\ parser = None
    /\ doc_structure = NoDoc
    /\ message_history = EmptyHistory
    /\ use_context_method = FALSE
    /\ results = << >>
    /\ calls = << >>
    /\ report = NoReport
    /\ error = NoError
    /\ runs = << >>
    /\ environ = NoEnviron
    /\ backends = << >>

Init ==
    /\ parser_name \in ParserNames
    /\ file_path \in FilePool
    /\ specifications \in SpecLists
    /\ judge = ScoreOutcomes
    /\ Fresh

\* DocxValidator.__init__: a configured extractor name is looked up once
Construct ==
    /\ pc = "construct"
    /\ LET made == IF parser_name = None THEN [ok |-> TRUE, parser |-> "docx"]
                   ELSE get_parser(parser_name)
       IN  IF made.ok
           THEN /\ pc' = "select"
                /\ error' = error
           ELSE /\ pc' = "construct_failed"
                /\ error' = made.error
    /\ UNCHANGED <<parser_name, file_path, specifications, env, parser, doc_structure,
                   message_history, use_context_method, results, calls, report>>

\* validate: explicit extractor if configured, else auto-detection
SelectParser ==
    /\ pc = "select"
    /\ LET chosen == IF parser_name # None THEN get_parser(parser_name)
                     ELSE detect_parser(file_path)
       IN  IF chosen.ok
           THEN /\ parser' = chosen.parser
                /\ pc' = "parse"
                /\ error' = error
           ELSE /\ parser' = parser
                /\ pc' = "raised"
                /\ error' = chosen.error
    /\ UNCHANGED <<parser_name, file_path, specifications, env, doc_structure,
                   message_history, use_context_method, results, calls, report>>

\* validate: doc_structure = parser.parse(file_path)
ParseDocument ==
    /\ pc = "parse"
    /\ LET parsed == parse(parser, file_path)
       IN  IF parsed.ok
           THEN /\ doc_structure' = parsed.structure
                /\ pc' = "setup_context"
                /\ error' = error
           ELSE /\ doc_structure' = doc_structure
                /\ pc' = "raised"
                /\ error' = parsed.error
    /\ UNCHANGED <<parser_name, file_path, specifications, env, parser,
                   message_history, use_context_method, results, calls, report>>

\* validate: message_history = self._setup_document_context(doc_structure);
\* use_context_method = bool(message_history)
SetupContext ==
    /\ pc = "setup_context"
    /\ \E o \in ContextOutcomes :
         LET setup == setup_document_context(doc_structure, o, Len(calls) + 1)
         IN  /\ message_history' = setup.message_history
             /\ use_context_method' = (setup.message_history # EmptyHistory)
             /\ calls' = Append(calls, setup.call)
    /\ pc' = "score"
    /\ UNCHANGED <<parser_name, file_path, specifications, env, parser, doc_structure,
                   results, report, error>>

\* validate: one iteration of the loop over specifications
ValidateNextSpec ==
    /\ pc = "score"
    /\ Len(results) < Len(specifications)
    /\ \E o \in judge :
         LET spec == specifications[Len(results) + 1]
             n    == Len(calls) + 1
         IN  IF use_context_method
             THEN LET step == validate_spec_with_context(
                                  spec, message_history, doc_structure, o, n)
                  IN  /\ results' = AppendResult(results, step.result)
                      /\ message_history' = step.message_history
                      /\ calls' = Append(calls, step.call)
             ELSE LET step == validate_spec(doc_structure, spec, o, n)
                  IN  /\ results' = AppendResult(results, step.result)
                      /\ message_history' = message_history
                      /\ calls' = Append(calls, step.call)
    /\ UNCHANGED <<parser_name, file_path, specifications, env, pc, parser,
                   doc_structure, use_context_method, report, error>>

\* validate: the scores and the returned ValidationReport
Aggregate ==
    /\ pc = "score"
    /\ Len(results) = Len(specifications)
    /\ IF \A k \in 1..Len(specifications) :
             specifications[k].name \in DOMAIN ResultMap(results)
       THEN /\ report' = BuildReport(file_path, specifications, results)
            /\ pc' = "done"
            /\ error' = error
       ELSE /\ report' = report
            /\ pc' = "raised"
            /\ error' = "KeyError"
    /\ UNCHANGED <<parser_name, file_path, specifications, env, parser, doc_structure,
                   message_history, use_context_method, results, calls>>

Next ==
    \/ Construct
    \/ SelectParser
    \/ ParseDocument
    \/ SetupContext
    \/ ValidateNextSpec
    \/ Aggregate

Spec == Init /\ [][Next]_vars

LiveInit == Init /\ specifications \in LiveSpecLists

\* the run is sequential code: every step that can be taken is taken
FairSpec == LiveInit /\ [][Next]_vars /\ WF_vars(Next)

\* runs of one requirement against a Judge that may answer any response text
ParseInit ==
    /\ parser_name \in { None, "DOCX" }
    /\ file_path \in { f \in FilePool : f.name = "report.docx" }
    /\ specifications \in { << r >> : r \in SpecPool }
    /\ judge = ParseOutcomes
    /\ Fresh

ParseSpec == ParseInit /\ [][Next]_vars

\* a well-formed PASS response whose confidence is out of range
PassOutOfRange ==
    MakeText(<< "Result:", "PASS", NL >>, << "Confidence:", "1.5", NL >>,
             << "Reasoning:", "ok" >>)

\* the Judge of the runs checked for out-of-range confidences
RangeOutcomes ==
    { Raises, Returns(WellFormedPass, FALSE), Returns(WellFormedFail, FALSE),
      Returns(PassOutOfRange, FALSE) }

\* runs of two requirements whose Judge may answer with such a confidence
RangeInit ==
    /\ parser_name \in { None, "DOCX" }
    /\ file_path \in { f \in FilePool : f.name = "report.docx" }
    /\ specifications \in { << q, r >> : q \in LivePool, r \in LivePool }
    /\ judge = RangeOutcomes
    /\ Fresh

RangeSpec == RangeInit /\ [][Next]_vars

\* runs of one requirement over every kind of path and configured name
RegistryInit ==
    /\ parser_name \in RegistryNames
    /\ file_path \in RegistryFiles
    /\ specifications \in { << r >> : r \in LivePool }
    /\ judge = ScoreOutcomes
    /\ Fresh

RegistrySpec == RegistryInit /\ [][Next]_vars

----------------------------------------------------------------------------
(* Concurrent runs *)

Runs == { 1, 2 }

\* the constructed validators: self._parser_name
Validators == << [parser_name |-> None], [parser_name |-> "DOCX"] >>

ConcFiles == { f \in FilePool : f.name \in { "report.docx", "page.html" } }

\* the requirement of the pool with the given name
Requirement(nm) == CHOOSE r \in SpecPool : r.name = nm

ConcSpecLists ==
    { << Requirement("a"), Requirement("c") >>, << Requirement("b") >> }

ConcOutcomes ==
    { Raises, Returns(WellFormedPass, FALSE), Returns(WellFormedFail, FALSE) }

\* the handle the Judge returns for call k of run r: the messages of that
\* run's conversation up to and including the call
HandleId(r, k) == r * 10 + k

\* the locals of one call of validate, before its first statement
StartRun(v, file, specs) ==
    [validator |-> v, file_path |-> file, specifications |-> specs,
     pc |-> "select", parser |-> None, doc_structure |-> NoDoc,
     message_history |-> EmptyHistory, use_context_method |-> FALSE,
     results |-> << >>, calls |-> << >>, outcomes |-> << >>,
     report |-> NoReport, error |-> NoError]

\* the handle read from the first run's frame by every run
CurrentHistory_Shared(rs, r) == rs[1].message_history

\* validate: the local message_history of the run's own frame
CurrentHistory(rs, r) == rs[r].message_history

ConcInit ==
    /\ parser_name = None
    /\ file_path \in { f \in FilePool : f.name = "report.docx" }
    /\ specifications = << >>
    /\ judge = ConcOutcomes
    /\ pc = "concurrent"
    /\ parser = None
    /\ doc_structure = NoDoc
    /\ message_history = EmptyHistory
    /\ use_context_method = FALSE
    /\ results = << >>
    /\ calls = << >>
    /\ report = NoReport
    /\ error = NoError
    /\ environ = NoEnviron
    /\ backends = << >>
    /\ runs \in [Runs -> { StartRun(v, f, l) :
                             v \in DOMAIN Validators, f \in ConcFiles,
                             l \in ConcSpecLists }]

main == <<parser_name, file_path, specifications, judge, pc, parser, doc_structure,
          message_history, use_context_method, results, calls, report, error,
          environ, backends>>

\* validate of run r: explicit extractor if configured, else auto-detection
RunSelectParser(r) ==
    /\ runs[r].pc = "select"
    /\ LET name   == Validators[runs[r].validator].parser_name
           chosen == IF name # None THEN get_parser(name)
                     ELSE detect_parser(runs[r].file_path)
       IN  runs' = [runs EXCEPT ![r] =
                      IF chosen.ok
                      THEN [@ EXCEPT !.parser = chosen.parser, !.pc = "parse"]
                      ELSE [@ EXCEPT !.error = chosen.error, !.pc = "raised"]]
    /\ UNCHANGED main

\* validate of run r: doc_structure = parser.parse(file_path)
RunParseDocument(r) ==
    /\ runs[r].pc = "parse"
    /\ LET parsed == parse(runs[r].parser, runs[r].file_path)
       IN  runs' = [runs EXCEPT ![r] =
                      IF parsed.ok
                      THEN [@ EXCEPT !.doc_structure = parsed.structure,
                                     !.pc = "setup_context"]
                      ELSE [@ EXCEPT !.error = parsed.error, !.pc = "raised"]]
    /\ UNCHANGED main

\* validate of run r: the context call
RunSetupContext(r) ==
    /\ runs[r].pc = "setup_context"
    /\ \E o \in ContextOutcomes :
         LET setup == setup_document_context(runs[r].doc_structure, o,
                                             HandleId(r, Len(runs[r].calls) + 1))
         IN  runs' = [runs EXCEPT ![r] =
                        [@ EXCEPT !.message_history = setup.message_history,
                                  !.use_context_method =
                                      (setup.message_history # EmptyHistory),
                                  !.calls = Append(@, setup.call),
                                  !.outcomes = Append(@, o),
                                  !.pc = "score"]]
    /\ UNCHANGED main

\* validate of run r: one iteration of the loop over specifications
RunValidateNextSpec(r) ==
    /\ runs[r].pc = "score"
    /\ Len(runs[r].results) < Len(runs[r].specifications)
    /\ \E o \in judge :
         LET spec == runs[r].specifications[Len(runs[r].results) + 1]
             n    == HandleId(r, Len(runs[r].calls) + 1)
         IN  IF runs[r].use_context_method
             THEN LET step == validate_spec_with_context(
                                  spec, CurrentHistory(runs, r),
                                  runs[r].doc_structure, o, n)
                  IN  runs' = [runs EXCEPT ![r] =
                                 [@ EXCEPT !.results = AppendResult(@, step.result),
                                           !.message_history = step.message_history,
                                           !.calls = Append(@, step.call),
                                           !.outcomes = Append(@, o)]]
             ELSE LET step == validate_spec(runs[r].doc_structure, spec, o, n)
                  IN  runs' = [runs EXCEPT ![r] =
                                 [@ EXCEPT !.results = AppendResult(@, step.result),
                                           !.calls = Append(@, step.call),
                                           !.outcomes = Append(@, o)]]
    /\ UNCHANGED main

\* validate of run r: the scores and the returned ValidationReport
RunAggregate(r) ==
    /\ runs[r].pc = "score"
    /\ Len(runs[r].results) = Len(runs[r].specifications)
    /\ runs' = [runs EXCEPT ![r] =
                  IF \A k \in 1..Len(runs[r].specifications) :
                        runs[r].specifications[k].name \in DOMAIN ResultMap(runs[r].results)
                  THEN [@ EXCEPT !.report = BuildReport(runs[r].file_path,
                                                        runs[r].specifications,
                                                        runs[r].results),
                                 !.pc = "done"]
                  ELSE [@ EXCEPT !.error = "KeyError", !.pc = "raised"]]
    /\ UNCHANGED main

ConcNext ==
    \E r \in Runs :
        \/ RunSelectParser(r)
        \/ RunParseDocument(r)
        \/ RunSetupContext(r)
        \/ RunValidateNextSpec(r)
        \/ RunAggregate(r)

ConcSpec == ConcInit /\ [][ConcNext]_vars

----------------------------------------------------------------------------
(* Extraction *)

\* what python-docx reads from a word document: the style name of each
\* paragraph (None for a paragraph without style) and the core properties
\* (None for a property the file does not carry)
DocxContents ==
    { [format |-> "docx", styles |-> st, author |-> au, created |-> cr, modified |-> mo] :
        st \in { << >>, << "Normal" >>, << "Normal", "Heading 1" >>, << None, "Normal" >> },
        au \in { None, "ann" }, cr \in { None, "2024-01-01" }, mo \in { None, "2024-02-02" } }

\* what BeautifulSoup finds: the title tag, and the author meta tag, absent,
\* without content attribute, or with content
HtmlContents ==
    { [format |-> "html", title |-> ti, author |-> au] :
        ti \in { None, "t" }, au \in { None, "nocontent", "ann" } }

\* what TexSoup finds: the title, author and date commands (None when absent)
LatexContents ==
    { [format |-> "latex", title |-> ti, author |-> au, date |-> da] :
        ti \in { None, "t" }, au \in { None, "ann" }, da \in { None, "today" } }

SuffixOf(format) ==
    CASE format = "docx" -> ".docx" [] format = "html" -> ".html" [] OTHER -> ".tex"

\* the files of the extraction runs: existing, readable, well-formed
ExtractFiles ==
    { [name |-> "document", suffix |-> SuffixOf(c.format), exists |-> TRUE,
       readable |-> TRUE, valid |-> TRUE, content |-> c] :
        c \in DocxContents \cup HtmlContents \cup LatexContents }

\* the string hash seed of the interpreter running a parse
HashSeeds == { 0, 1 }

\* the members of a sequence
Range(seq) == { seq[k] : k \in DOMAIN seq }

\* list(set): the iteration order of a set of strings follows their hashes,
\* which the interpreter's hash seed decides
ListOfSet(S, seed) ==
    IF S = { "Normal", "Heading 1" }
    THEN IF seed = 0 THEN << "Normal", "Heading 1" >> ELSE << "Heading 1", "Normal" >>
    ELSE IF S = { } THEN << >>
    ELSE << CHOOSE x \in S : TRUE >>

\* DocxParser.parse: the structure before the raw markup is read
DocxStructure(file, seed) ==
    LET c == file.content
    IN  [file_path |-> file.name,
         document_type |-> "docx",
         paragraphs |-> [k \in DOMAIN c.styles |-> [style |-> c.styles[k]]],
         styles |-> ListOfSet(Range(c.styles) \ { None }, seed),
         metadata |-> [author   |-> IF c.author # None THEN c.author ELSE "",
                       created  |-> c.created,
                       modified |-> c.modified],
         xml_content |-> None]

\* HTMLParser._parse_with_beautifulsoup: title always, author when the tag is there
HtmlStructure(file) ==
    LET c == file.content
        title == IF c.title # None THEN c.title ELSE ""
    IN  [file_path |-> file.name,
         document_type |-> "html",
         metadata |-> IF c.author = None THEN [k \in { "title" } |-> title]
                      ELSE [k \in { "title", "author" } |->
                              IF k = "title" THEN title
                              ELSE IF c.author = "nocontent" THEN "" ELSE c.author]]

\* LaTeXParser._parse_latex: a metadata key only for a command that is there
LatexStructure(file) ==
    LET c == file.content
        present == { k \in { "title", "author", "date" } : c[k] # None }
    IN  [file_path |-> file.name,
         document_type |-> "latex",
         metadata |-> [k \in present |-> c[k]]]

\* what reading word/document.xml from the archive can do: succeed, or raise
AuxOutcomes ==
    { "ok", "BadZipFile", "UnicodeDecodeError", "OSError",
      "zlib.error", "NotImplementedError", "RuntimeError" }

\* except (zipfile.BadZipFile, UnicodeDecodeError, OSError)
AuxCaught(a) == a \in { "BadZipFile", "UnicodeDecodeError", "OSError" }

\* the locals of one call of parse
StartParse(seed) ==
    [seed |-> seed, pc |-> "open", parser |-> None, structure |-> NoDoc, error |-> NoError]

ExtractInit ==
    /\ parser_name = None
    /\ file_path \in ExtractFiles
    /\ specifications = << >>
    /\ judge = ScoreOutcomes
    /\ pc = "extract"
    /\ parser = None
    /\ doc_structure = NoDoc
    /\ message_history = EmptyHistory
    /\ use_context_method = FALSE
    /\ results = << >>
    /\ calls = << >>
    /\ report = NoReport
    /\ error = NoError
    /\ environ = NoEnviron
    /\ backends = << >>
    /\ runs \in [Runs -> { StartParse(seed) : seed \in HashSeeds }]

\* parse of run r: validate_file, then the file is opened and interpreted
ExtractOpen(r) ==
    /\ runs[r].pc = "open"
    /\ LET chosen == detect_parser(file_path)
           opened == parse(chosen.parser, file_path)
       IN  runs' = [runs EXCEPT ![r] =
                      IF opened.ok
                      THEN [@ EXCEPT !.parser = chosen.parser, !.pc = "body"]
                      ELSE [@ EXCEPT !.error = opened.error, !.pc = "raised"]]
    /\ UNCHANGED main

\* parse of run r: the structure is filled from the document
ExtractBody(r) ==
    /\ runs[r].pc = "body"
    /\ runs' = [runs EXCEPT ![r] =
                  CASE @.parser = "docx" ->
                         [@ EXCEPT !.structure = DocxStructure(file_path, runs[r].seed),
                                   !.pc = "xml"]
                    [] @.parser = "html" ->
                         [@ EXCEPT !.structure = HtmlStructure(file_path),
                                   !.pc = "returned"]
                    [] OTHER ->
                         [@ EXCEPT !.structure = LatexStructure(file_path),
                                   !.pc = "returned"]]
    /\ UNCHANGED main

\* DocxParser.parse of run r: the raw main-body markup is read from the archive
ExtractXml(r) ==
    /\ runs[r].pc = "xml"
    /\ \E a \in AuxOutcomes :
         runs' = [runs EXCEPT ![r] =
                    IF a = "ok"
                    THEN [@ EXCEPT !.structure.xml_content = "document.xml",
                                   !.pc = "returned"]
                    ELSE IF AuxCaught(a)
                    THEN [@ EXCEPT !.pc = "returned"]
                    ELSE [@ EXCEPT !.error = a, !.pc = "raised"]]
    /\ UNCHANGED main

ExtractNext ==
    \E r \in Runs :
        \/ ExtractOpen(r)
        \/ ExtractBody(r)
        \/ ExtractXml(r)

ExtractSpec == ExtractInit /\ [][ExtractNext]_vars

----------------------------------------------------------------------------
(* Model backends *)

MaxBackends == 2

\* the environments a process can start with
Environs ==
    { [GITHUB_TOKEN |-> gh, OPENAI_API_KEY |-> ok, OPENAI_BASE_URL |-> ou,
       NEBULAONE_API_KEY |-> nk, NEBULAONE_BASE_URL |-> nu] :
        gh \in { None, "ghtoken" }, ok \in { None, "envkey" }, ou \in { None, "envurl" },
        nk \in { None, "nebkey" }, nu \in { None, "neburl" } }

\* the arguments a backend can be constructed with (None: not given)
ApiKeys == { None, "k1" }
BaseUrls == { None, "u1", "u2" }

\* a or b, for values where only None is false
Or(a, b) == IF a # None THEN a ELSE b

\* a constructor handing its arguments to the model and leaving os.environ alone
OpenAIBackendInit_NoEnvWrite(e, api_key, base_url) ==
    LET key == Or(api_key, Or(e.GITHUB_TOKEN, e.OPENAI_API_KEY))
    IN  [environ |-> e,
         backend |-> [passed |-> [api_key |-> api_key, base_url |-> base_url],
                      api_key |-> key,
                      model |-> [api_key |-> key,
                                 base_url |-> Or(base_url, e.OPENAI_BASE_URL)]]]

\* OpenAIBackend.__init__: the key and the URL are written to os.environ and
\* the model is created from os.environ
OpenAIBackendInit(e, api_key, base_url) ==
    LET key == Or(api_key, Or(e.GITHUB_TOKEN, e.OPENAI_API_KEY))
        e1  == IF base_url # None
               THEN [e EXCEPT !.OPENAI_BASE_URL = base_url]
               ELSE IF e.OPENAI_BASE_URL = None /\ e.GITHUB_TOKEN # None
               THEN [e EXCEPT !.OPENAI_BASE_URL = "https://models.inference.ai.azure.com"]
               ELSE e
        e2  == IF key # None THEN [e1 EXCEPT !.OPENAI_API_KEY = key] ELSE e1
    IN  [environ |-> e2,
         backend |-> [passed |-> [api_key |-> api_key, base_url |-> base_url],
                      api_key |-> key,
                      model |-> [api_key |-> e2.OPENAI_API_KEY,
                                 base_url |-> e2.OPENAI_BASE_URL]]]

\* NebulaOneBackend.__init__: its own variables first, then OpenAIBackend.__init__
NebulaOneBackendInit(e, api_key, base_url) ==
    OpenAIBackendInit(e,
                      Or(api_key, Or(e.NEBULAONE_API_KEY, e.OPENAI_API_KEY)),
                      Or(base_url, e.NEBULAONE_BASE_URL))

BackendInit ==
    /\ parser_name = None
    /\ file_path \in { f \in FilePool : f.name = "report.docx" }
    /\ specifications = << >>
    /\ judge = ScoreOutcomes
    /\ pc = "backends"
    /\ parser = None
    /\ doc_structure = NoDoc
    /\ message_history = EmptyHistory
    /\ use_context_method = FALSE
    /\ results = << >>
    /\ calls = << >>
    /\ report = NoReport
    /\ error = NoError
    /\ runs = << >>
    /\ environ \in Environs
    /\ backends = << >>

\* get_backend("openai", api_key=..., base_url=...)
ConstructOpenAI ==
    /\ Len(backends) < MaxBackends
    /\ \E k \in ApiKeys, u \in BaseUrls :
         LET made == OpenAIBackendInit(environ, k, u)
         IN  /\ environ' = made.environ
             /\ backends' = Append(backends, made.backend)
    /\ UNCHANGED <<parser_name, file_path, specifications, judge, pc, parser,
                   doc_structure, message_history, use_context_method, results,
                   calls, report, error, runs>>

\* get_backend("nebulaone", api_key=..., base_url=...)
ConstructNebulaOne ==
    /\ Len(backends) < MaxBackends
    /\ \E k \in ApiKeys, u \in BaseUrls :
         LET made == NebulaOneBackendInit(environ, k, u)
         IN  /\ environ' = made.environ
             /\ backends' = Append(backends, made.backend)
    /\ UNCHANGED <<parser_name, file_path, specifications, judge, pc, parser,
                   doc_structure, message_history, use_context_method, results,
                   calls, report, error, runs>>

BackendNext ==
    \/ ConstructOpenAI
    \/ ConstructNebulaOne

BackendSpec == BackendInit /\ [][BackendNext]_vars

----------------------------------------------------------------------------
(* Properties *)

Done == pc = "done"

DistinctNames ==
    \A i, j \in 1..Len(specifications) :
        specifications[i].name = specifications[j].name => i = j

\* the scoring calls are calls 2, 3, ...: call k scores requirement k - 1
ScoringCalls == 2..Len(calls)

\* C1: a returned Report has total_count = number of input requirements,
\* passed_count = number of its Judgments with passed = true, and
\* failed_count + passed_count = total_count.
C1_Counts ==
    Done =>
        /\ report.total_specs = Len(specifications)
        /\ report.passed_count =
               Cardinality({ k \in 1..Len(report.results) : report.results[k].passed })
        /\ report.failed_count + report.passed_count = report.total_specs

C1_Witness ==
    /\ Done
    /\ Len(specifications) = MaxSpecs
    /\ report.passed_count = 1
    /\ \E k \in ScoringCalls : calls[k].raised
    /\ \E k \in ScoringCalls : calls[k].data = NoResultLine

\* C2: the Report holds exactly one Judgment per input requirement, in input
\* order: the i-th Judgment carries the i-th requirement's name.
C2_OrderedResults ==
    /\ Len(results) <= Len(specifications)
    /\ \A i \in 1..Len(results) : results[i].spec_name = specifications[i].name
    /\ Done =>
          /\ Len(report.results) = Len(specifications)
          /\ \A i \in 1..Len(specifications) :
                 report.results[i].spec_name = specifications[i].name

C2_Witness ==
    /\ Done
    /\ Len(specifications) = MaxSpecs
    /\ specifications[1].name # specifications[2].name
    /\ \E k \in ScoringCalls : calls[k].prompt.template = "with_context"
    /\ \E k \in ScoringCalls : calls[k].prompt.template = "legacy"
    /\ \E k \in ScoringCalls : calls[k].raised

\* the Judgment matched to a requirement name, for distinct names
JudgmentOf(nm) ==
    CHOOSE r \in { report.results[k] : k \in 1..Len(report.results) } : r.spec_name = nm

\* C3: total_weight is the sum of all requirement scores; with distinct names
\* achieved_weight is the sum of the scores of exactly the requirements whose
\* Judgment passed (a failed requirement contributes nothing, also when its
\* score is negative).
C3_Weights ==
    Done =>
        /\ report.total_score_available =
               Sum([k \in 1..Len(specifications) |-> specifications[k].score])
        /\ DistinctNames =>
               report.achieved_score =
                   Sum([k \in 1..Len(specifications) |->
                          IF JudgmentOf(specifications[k].name).passed
                          THEN specifications[k].score ELSE 0])

C3_Witness ==
    /\ Done
    /\ DistinctNames
    /\ \E k \in 1..Len(specifications) :
          specifications[k].score < 0 /\ ~report.results[k].passed
    /\ \E k \in 1..Len(specifications) : report.results[k].passed
    /\ report.achieved_score > report.total_score_available

\* C4: normalized_score is achieved_weight / total_weight when total_weight > 0
\* and 0.0 whenever total_weight <= 0, whatever achieved_weight is; the
\* aggregation never raises.
C4_NormalizedScore ==
    /\ error # "KeyError"
    /\ Done =>
          /\ report.total_score_available > 0 =>
                /\ report.score.den > 0
                /\ report.score.num * report.total_score_available =
                       report.achieved_score * report.score.den
          /\ report.total_score_available <= 0 => report.score = Zero

C4_Witness ==
    /\ Done
    /\ report.total_score_available <= 0
    /\ report.achieved_score > 0

AllDefaultScore ==
    /\ Len(specifications) > 0
    /\ \A k \in 1..Len(specifications) : specifications[k].score = 1

\* C5 as stated: for every list of N > 0 requirements of score 1.0,
\* normalized_score = passed_count / total_count.
C5_Original ==
    (Done /\ AllDefaultScore) =>
        report.score.num * report.total_specs = report.passed_count * report.score.den

\* C5, amended: for every list of N > 0 requirements of score 1.0 with pairwise
\* distinct names, normalized_score = passed_count / total_count.
C5_EqualWeight ==
    (Done /\ AllDefaultScore /\ DistinctNames) =>
        report.score.num * report.total_specs = report.passed_count * report.score.den

C5_Witness ==
    /\ Done
    /\ AllDefaultScore
    /\ DistinctNames
    /\ Len(specifications) = 2
    /\ report.passed_count = 1

ReportFields ==
    { "file_path", "results", "total_specs", "passed_count", "failed_count",
      "score", "total_score_available", "achieved_score" }

AllCallsRaised == \A k \in 1..Len(calls) : calls[k].raised

\* C6: once extraction has succeeded, validate terminates by returning a
\* Report whatever the Judge does; if every Judge call of the run raised, the
\* Report holds one Judgment per requirement, each failed with confidence 0.0,
\* and passed_count = 0.
C6_AlwaysReport ==
    /\ [](doc_structure # NoDoc => <>(Done /\ report # NoReport))
    /\ [](doc_structure # NoDoc => pc # "raised")
    /\ []((Done /\ AllCallsRaised) =>
            /\ Len(report.results) = Len(specifications)
            /\ \A k \in 1..Len(report.results) :
                   /\ ~report.results[k].passed
                   /\ report.results[k].confidence = 0
            /\ report.passed_count = 0)

C6_Witness ==
    /\ Done
    /\ Len(specifications) = MaxSpecs
    /\ Len(calls) = MaxSpecs + 1
    /\ AllCallsRaised

\* C7: when extractor selection or extraction fails, validate propagates the
\* error, returns no Report and issues no Judge call: no Judge call ever
\* precedes a successful extraction.
C7_ExtractionFatal ==
    /\ (calls # << >> \/ report # NoReport) =>
          /\ doc_structure # NoDoc
          /\ file_path.exists
          /\ file_path.valid
          /\ \E k \in 1..Len(PARSERS) : supports_extension(PARSERS[k], file_path.suffix)
          /\ error = NoError
    /\ pc = "raised" =>
          /\ error # NoError
          /\ report = NoReport
          /\ calls = << >>
    /\ (pc \notin { "construct", "construct_failed", "select", "parse", "raised" }) =>
          doc_structure # NoDoc

C7_Witness ==
    /\ pc = "raised"
    /\ error = "FileNotFoundError"
    /\ Len(specifications) > 0

ContextCallSucceeded == Len(calls) >= 1 /\ ~calls[1].raised

\* C8 as stated: in a run whose context-establishment call succeeds, the
\* serialized Document Structure is in no scoring prompt and every scoring
\* call carries a conversation handle, whatever handles the Judge returns.
C8_Original ==
    ContextCallSucceeded =>
        /\ calls[1].prompt.structure = { Serialize(doc_structure) }
        /\ \A k \in ScoringCalls :
               /\ calls[k].prompt.structure = { }
               /\ calls[k].message_history # EmptyHistory

NonEmptyHandlesBefore(k) ==
    \A j \in 1..(k - 1) : ~calls[j].raised => calls[j].all_messages # EmptyHistory

\* C8, amended: in a run whose context-establishment call succeeds, while
\* every handle returned by the Judge so far is non-empty, the serialized
\* Document Structure is sent exactly once (in the context-establishment
\* prompt) and every scoring call carries a conversation handle instead.
C8_StructureOnce ==
    ContextCallSucceeded =>
        /\ calls[1].prompt.structure = { Serialize(doc_structure) }
        /\ calls[1].message_history = EmptyHistory
        /\ \A k \in ScoringCalls :
               NonEmptyHandlesBefore(k) =>
                   /\ calls[k].prompt.structure = { }
                   /\ calls[k].message_history # EmptyHistory

C8_Witness ==
    /\ Done
    /\ ContextCallSucceeded
    /\ Len(calls) = MaxSpecs + 1
    /\ NonEmptyHandlesBefore(Len(calls) + 1)
    /\ \E k \in ScoringCalls : calls[k].raised
    /\ \E k \in ScoringCalls : calls[k].data = NoResultLine

\* C9: if the context-establishment call raises, the error is not propagated:
\* every requirement is scored with a prompt embedding the full serialized
\* Document Structure and with no conversation handle, and the run returns a
\* Report with the same fields as in context mode.
C9_Fallback ==
    (Len(calls) >= 1 /\ calls[1].raised) =>
        /\ error = NoError
        /\ pc \in { "score", "done" }
        /\ ~use_context_method
        /\ \A k \in ScoringCalls :
               /\ calls[k].prompt.structure = { Serialize(doc_structure) }
               /\ calls[k].prompt.name = specifications[k - 1].name
               /\ calls[k].message_history = EmptyHistory
        /\ Done =>
               /\ Len(calls) = Len(specifications) + 1
               /\ DOMAIN report = ReportFields

C9_Witness ==
    /\ Done
    /\ calls[1].raised
    /\ Len(specifications) = MaxSpecs
    /\ report.passed_count > 0
    /\ report.failed_count > 0

\* call j returned and, for a scoring call, its response parsed
Completed(j) ==
    /\ ~calls[j].raised
    /\ j > 1 => ParseResponse(specifications[j - 1], calls[j].data).ok

\* the most recent call before call k among those in S
LastIn(S, k) ==
    CHOOSE j \in S : j < k /\ \A i \in S : i < k => i <= j

CompletedCalls == { j \in 1..Len(calls) : Completed(j) }

\* C10 as stated: in context mode the handle sent with a scoring call is the
\* handle returned by the most recent earlier call that completed without
\* error.
C10_Original ==
    use_context_method =>
        \A k \in ScoringCalls :
            calls[k].message_history = calls[LastIn(CompletedCalls, k)].all_messages

\* the context-establishment call and the scoring calls sent with a handle
HandleCalls ==
    { j \in CompletedCalls : j = 1 \/ calls[j].message_history # EmptyHistory }

\* C10, amended: in context mode the handle sent with a scoring call is the
\* handle returned by the most recent earlier call that was itself the
\* context-establishment call or a scoring call sent with a handle and that
\* completed without error; a call that raises or whose response fails to
\* parse leaves the handle unchanged, and once the handle is empty no handle
\* is sent for the rest of the run.
C10_HandleThreading ==
    use_context_method =>
        /\ \A k \in ScoringCalls :
               calls[k].message_history = calls[LastIn(HandleCalls, k)].all_messages
        /\ message_history = calls[LastIn(HandleCalls, Len(calls) + 1)].all_messages

C10_Witness ==
    /\ Done
    /\ use_context_method
    /\ Len(calls) = 4
    /\ Completed(2)
    /\ calls[2].all_messages # EmptyHistory
    /\ ~Completed(3)
    /\ calls[4].message_history = calls[2].all_messages
    /\ calls[4].message_history # calls[1].all_messages

\* the scoring call of requirement i did not complete: it raised or its
\* response failed to parse
FailedCall(i) == i + 1 \in ScoringCalls /\ ~Completed(i + 1)

\* C11: when sending to the Judge or parsing its response raises for one
\* requirement, its Judgment is synthesized with passed = false, confidence
\* 0.0 and a reasoning holding the error's description; the error is not
\* propagated and every later requirement is still sent to the Judge.
C11_FailureIsolation ==
    /\ \A i \in 1..Len(results) :
          FailedCall(i) =>
              /\ results[i].spec_name = specifications[i].name
              /\ ~results[i].passed
              /\ results[i].confidence = 0
              /\ results[i].reasoning =
                     << "Validation error:",
                        IF calls[i + 1].raised THEN "JudgeError"
                        ELSE IF \E t \in 1..Len(calls[i + 1].data) :
                                    calls[i + 1].data[t] = "Result:"
                             THEN "ValidationError" ELSE "IndexError" >>
              /\ error = NoError
              /\ pc \in { "score", "done" }
    /\ Done =>
          /\ Len(calls) = Len(specifications) + 1
          /\ \A i \in 1..Len(specifications) :
                 calls[i + 1].prompt.name = specifications[i].name

C11_Witness ==
    /\ Done
    /\ Len(specifications) = MaxSpecs
    /\ calls[2].raised
    /\ FailedCall(2) /\ ~calls[3].raised
    /\ report.results[3].passed

\* the tokens of the marked result line of a response text
ResultLineOf(text) ==
    IF Contains(text, "Result:") THEN SplitHead(SplitSecond(text, "Result:"), NL)
    ELSE << >>

\* C12: passed is true only if PASS appears and FAIL does not appear on the
\* marked result line: the verdict is decided by the result line alone, so a
\* PASS elsewhere in the response cannot make the Judgment pass.
C12_ResultLineDecides ==
    \A i \in 1..Len(results) :
        results[i].passed =>
            LET line == ResultLineOf(calls[i + 1].data)
            IN  /\ \E t \in 1..Len(line) : line[t] \in { "PASS", "PASS/FAIL" }
                /\ ~\E t \in 1..Len(line) : line[t] \in { "FAIL", "PASS/FAIL" }

BothLine == << "Result:", "PASS/FAIL", NL >>

\* the confidence a confidence line stands for, in tenths
WrittenConfidence(c) ==
    IF c = << "Confidence:", "0.9", NL >> THEN 9 ELSE DefaultConfidence

\* C13: a response whose result line holds both the PASS and the FAIL marker
\* parses to passed = false as a normal failed verdict, with confidence and
\* reasoning taken from the response, not as a parse error.
C13_BothMarkersFail ==
    \A i \in 1..Len(results) :
        \A c \in { << >>, << "Confidence:", "0.9", NL >>, << "Confidence:", "high", NL >> },
           g \in ClosingParts :
            (~calls[i + 1].raised /\ calls[i + 1].data = MakeText(BothLine, c, g)) =>
                /\ ~results[i].passed
                /\ results[i].confidence = WrittenConfidence(c)
                /\ results[i].reasoning =
                       IF g # << >> /\ Head(g) = "Reasoning:" THEN Tail(g)
                       ELSE MakeText(BothLine, c, g)

C13_Witness ==
    /\ Done
    /\ ~calls[2].raised
    /\ calls[2].data = MakeText(BothLine, << "Confidence:", "0.9", NL >>,
                                << "Reasoning:", "would", "PASS" >>)
    /\ report.results[1].confidence = 9
    /\ report.failed_count = 1

\* C14: a response without a confidence marker, or with a confidence text
\* that is not a number, gets confidence 0.8, and a response without a
\* reasoning marker gets the whole raw text as reasoning; also a response
\* without a result line, which yields passed = false with these defaults.
C14_ParsingDefaults ==
    \A i \in 1..Len(results) :
        \A r \in ResultLines, c \in ConfidenceLines, g \in ClosingParts :
            (~calls[i + 1].raised /\ calls[i + 1].data = MakeText(r, c, g)) =>
                /\ c \in { << >>, << "Confidence:", "high", NL >> } =>
                       results[i].confidence = DefaultConfidence
                /\ (g = << >> \/ Head(g) # "Reasoning:") =>
                       (c \notin { << "Confidence:", "1.5", NL >>,
                                   << "Confidence:", "-0.2", NL >> } =>
                            results[i].reasoning = MakeText(r, c, g))
                /\ r = << >> => ~results[i].passed

\* C15: every Judgment of every Report has 0.0 <= confidence <= 1.0, whatever
\* number the Judge writes on its confidence line.
C15_ConfidenceRange ==
    /\ \A i \in 1..Len(results) :
          results[i].confidence >= 0 /\ results[i].confidence <= 10
    /\ Done =>
          \A i \in 1..Len(report.results) :
              report.results[i].confidence >= 0 /\ report.results[i].confidence <= 10

C15_Witness ==
    /\ Done
    /\ ~calls[2].raised
    /\ calls[2].data = MakeText(<< "Result:", "PASS", NL >>,
                                << "Confidence:", "1.5", NL >>, << "Reasoning:", "ok" >>)
    /\ report.results[1].confidence = 0

\* the extractor was selected and parse has been called
ParseCalled == parser # None /\ pc \notin { "construct", "select", "parse" }

\* C16: detect compares the path's extension case-insensitively with the
\* registered extractors: .docx gives the word-document extractor, .html and
\* .htm the hypertext one, .tex and .latex the markup-source one; any other
\* extension, or none, fails with an error listing every supported extension.
C16_Detect ==
    (parser_name = None /\ pc \notin { "construct", "select" }) =>
        /\ file_path.suffix \in { ".docx", ".DOCX" } => parser = "docx"
        /\ file_path.suffix \in { ".html", ".HTML", ".htm" } => parser = "html"
        /\ file_path.suffix \in { ".tex", ".Tex", ".latex" } => parser = "latex"
        /\ file_path.suffix \in { ".pdf", "" } =>
              /\ pc = "raised"
              /\ error = "ValueError: No parser found"
              /\ detect_parser(file_path).supported =
                     << ".docx", ".html", ".htm", ".tex", ".latex" >>
              /\ calls = << >>

C16_Witness ==
    /\ parser_name = None
    /\ file_path.suffix = ".pdf"
    /\ file_path.exists
    /\ pc = "raised"
    /\ error = "ValueError: No parser found"

\* C17: get matches the name case-insensitively with the registered names
\* docx, html, latex and returns an extractor of that format; an unrecognized
\* name fails with an error listing all valid names.
C17_Get ==
    parser_name # None =>
        /\ (parser_name \in { "docx", "DOCX" } /\ pc \notin { "construct", "select" }) =>
               parser = "docx"
        /\ (parser_name \in { "html", "HTML" } /\ pc \notin { "construct", "select" }) =>
               parser = "html"
        /\ (parser_name \in { "latex", "LaTeX" } /\ pc \notin { "construct", "select" }) =>
               parser = "latex"
        /\ parser_name \in { "docx", "DOCX", "html", "HTML", "latex", "LaTeX" } =>
               pc # "construct_failed"
        /\ parser_name \notin { "docx", "DOCX", "html", "HTML", "latex", "LaTeX" } =>
               /\ pc \in { "construct", "construct_failed" }
               /\ pc = "construct_failed" =>
                      /\ error = "ValueError: Unknown parser"
                      /\ get_parser(parser_name).available = << "docx", "html", "latex" >>

C17_Witness ==
    /\ parser_name = "pdf"
    /\ pc = "construct_failed"
    /\ error = "ValueError: Unknown parser"

\* C18: parse of a path that does not exist fails with NotFound whatever the
\* extension (existence is checked before extension support); an existing
\* file with an extension the extractor does not support fails with
\* Unsupported before any content is read.
C18_NotFoundFirst ==
    ParseCalled =>
        /\ ~file_path.exists =>
               pc = "raised" /\ error = "FileNotFoundError"
        /\ (file_path.exists /\ ~supports_extension(parser, file_path.suffix)) =>
               pc = "raised" /\ error = "ValueError: extension not supported"

C18_Witness ==
    /\ ParseCalled
    /\ ~file_path.exists
    /\ ~supports_extension(parser, file_path.suffix)
    /\ error = "FileNotFoundError"

\* C19: an I/O error while reading an existing file of a supported extension
\* is reported as Unreadable, an error kind distinct from Unsupported and
\* from NotFound.
C19_Unreadable ==
    (/\ ParseCalled
     /\ file_path.exists
     /\ supports_extension(parser, file_path.suffix)
     /\ ~file_path.readable) =>
        /\ pc = "raised"
        /\ ErrorKind(error) \notin { "ValueError", "FileNotFoundError" }

RECURSIVE SoloResults(_, _, _, _, _, _)
\* the Judgments of run r executed alone on the answers outs: the loop of
\* validate from requirement k on, with handle history and Judgments rs
SoloResults(r, outs, k, history, use_context, rs) ==
    LET run == runs[r]
    IN  IF k > Len(run.specifications) THEN rs
        ELSE LET spec == run.specifications[k]
                 n    == HandleId(r, k + 1)
             IN  IF use_context
                 THEN LET step == validate_spec_with_context(
                                      spec, history, run.doc_structure, outs[k + 1], n)
                      IN  SoloResults(r, outs, k + 1, step.message_history,
                                      use_context, AppendResult(rs, step.result))
                 ELSE LET step == validate_spec(run.doc_structure, spec, outs[k + 1], n)
                      IN  SoloResults(r, outs, k + 1, history,
                                      use_context, AppendResult(rs, step.result))

\* the Report of run r executed alone with the same inputs and answers
SoloReport(r) ==
    LET run   == runs[r]
        setup == setup_document_context(run.doc_structure, run.outcomes[1],
                                        HandleId(r, 1))
    IN  BuildReport(run.file_path, run.specifications,
                    SoloResults(r, run.outcomes, 1, setup.message_history,
                                setup.message_history # EmptyHistory, << >>))

\* the handles of run r's own conversation
OwnHandles(r) == { HandleId(r, k) : k \in 1..9 }

\* C20: for any interleaving of the Judge calls of two concurrent runs, on
\* the same or on different validators, each run sends the handles of its own
\* conversation only, and returns the same Report as when it runs alone with
\* the same inputs and the same answers of the Judge.
C20_RunsIndependent ==
    \A r \in Runs :
        /\ \A i \in DOMAIN runs[r].calls :
               runs[r].calls[i].message_history \in { EmptyHistory } \cup OwnHandles(r)
        /\ runs[r].pc = "done" => runs[r].report = SoloReport(r)

\* both runs finished on one validator after interleaved Judge calls, run 2
\* having sent a handle while run 1 held a different one
C20_Witness ==
    /\ \A r \in Runs : runs[r].pc = "done"
    /\ runs[1].validator = runs[2].validator
    /\ runs[1].message_history # EmptyHistory
    /\ \E i \in DOMAIN runs[2].calls :
           runs[2].calls[i].message_history \in OwnHandles(2)
    /\ runs[1].report # runs[2].report

\* C21: parsing the same file twice with the same extractor yields identical
\* Document Structure records, including the element order of the list of
\* style names.
C21_Deterministic ==
    (/\ \A r \in Runs : runs[r].pc = "returned"
     /\ runs[1].parser = "docx" =>
            runs[1].structure.xml_content = runs[2].structure.xml_content) =>
        runs[1].structure = runs[2].structure

\* C22: in every Document Structure returned by an extractor each metadata
\* value is a string, omitted or empty when the source does not provide it,
\* never null.
C22_MetadataStrings ==
    \A r \in Runs :
        runs[r].pc = "returned" =>
            \A k \in DOMAIN runs[r].structure.metadata :
                runs[r].structure.metadata[k] # None

\* C23: once the word document has been opened, a failure of the extraction
\* of the raw main-body markup never fails the parse: the structure is
\* returned with the payload field left empty.
C23_AuxiliaryNeverFails ==
    \A r \in Runs :
        (runs[r].parser = "docx" /\ runs[r].pc \notin { "open", "body", "xml" }) =>
            /\ runs[r].pc = "returned"
            /\ runs[r].structure.xml_content \in { None, "document.xml" }

\* C24: in fallback mode every scoring prompt embeds the requirement's name,
\* its description and its category together with the full serialized
\* structure, the same requirement fields as the context-mode scoring prompt.
C24_FallbackPromptFields ==
    \A i \in ScoringCalls :
        calls[i].prompt.template = "legacy" =>
            /\ calls[i].prompt.name = specifications[i - 1].name
            /\ calls[i].prompt.description = specifications[i - 1].description
            /\ calls[i].prompt.category = specifications[i - 1].category
            /\ calls[i].prompt.structure = { Serialize(doc_structure) }

\* C25: a run whose extraction succeeds makes exactly N + 1 Judge calls for N
\* requirements: one context call without a handle, then one scoring call per
\* requirement in input order, in both modes, with no retry after a failure.
C25_CallCount ==
    /\ pc \in { "construct", "select", "parse", "setup_context" } => calls = << >>
    /\ pc \in { "score", "done" } => Len(calls) = Len(results) + 1
    /\ Done => Len(calls) = Len(specifications) + 1
    /\ calls # << >> =>
          /\ calls[1].prompt.template = "context_setup"
          /\ calls[1].message_history = EmptyHistory
    /\ \A i \in ScoringCalls :
          /\ calls[i].prompt.template \in { "with_context", "legacy" }
          /\ calls[i].prompt.name = specifications[i - 1].name

C25_Witness ==
    /\ Done
    /\ Len(specifications) = 2
    /\ Len(calls) = 3
    /\ calls[2].raised
    /\ calls[2].prompt.template = "with_context"
    /\ ~calls[3].raised

\* the last Judgment produced for a requirement name
LastJudgment(nm) ==
    LET last == CHOOSE k \in 1..Len(report.results) :
                   /\ report.results[k].spec_name = nm
                   /\ \A j \in 1..Len(report.results) :
                         report.results[j].spec_name = nm => j <= k
    IN  report.results[last]

\* C26: when requirements share a name, validate still returns one Judgment
\* per requirement and never fails on the name lookup; each requirement
\* contributes its score to achieved_weight according to the last Judgment
\* produced for its name.
C26_SameNameCoalesced ==
    /\ error # "KeyError"
    /\ Done =>
          /\ Len(report.results) = Len(specifications)
          /\ report.achieved_score =
                 Sum([k \in 1..Len(specifications) |->
                        IF LastJudgment(specifications[k].name).passed
                        THEN specifications[k].score ELSE 0])

C26_Witness ==
    /\ Done
    /\ Len(specifications) = 2
    /\ specifications[1].name = specifications[2].name
    /\ ~report.results[1].passed
    /\ report.results[2].passed
    /\ report.passed_count = 1
    /\ report.achieved_score = 2

\* the Judge call made by the step, when the step makes one
NewCall == calls'[Len(calls')]

\* C27: the scoring mode follows the emptiness of the handle: a context call
\* returning normally with an empty handle puts the run in fallback mode, and
\* a scoring call returning an empty updated handle makes every following
\* requirement be scored with the full-structure prompt and no handle.
C27_ModeFromHandle ==
    [][ Len(calls') = Len(calls) + 1 =>
          /\ calls = << >> =>
                use_context_method' = (NewCall.all_messages # EmptyHistory)
          /\ (/\ calls # << >>
              /\ use_context_method
              /\ message_history # EmptyHistory
              /\ ~NewCall.raised
              /\ NewCall.data \in { WellFormedPass, WellFormedFail }
              /\ NewCall.all_messages = EmptyHistory) =>
                message_history' = EmptyHistory
          /\ (calls # << >> /\ message_history = EmptyHistory) =>
                /\ NewCall.prompt.template = "legacy"
                /\ NewCall.prompt.structure = { Serialize(doc_structure) }
                /\ NewCall.message_history = EmptyHistory
                /\ message_history' = EmptyHistory ]_vars

C27_Witness ==
    /\ Len(calls) = 4
    /\ calls[1].all_messages # EmptyHistory
    /\ calls[2].prompt.template = "with_context"
    /\ ~calls[2].raised
    /\ calls[2].all_messages = EmptyHistory
    /\ calls[3].prompt.template = "legacy"
    /\ calls[4].prompt.template = "legacy"
    /\ calls[4].message_history = EmptyHistory

\* C29: if every requirement score is non-negative, names are distinct and
\* total_weight > 0, then 0 <= achieved_weight <= total_weight and
\* 0.0 <= normalized_score <= 1.0.
C29_ScoreBounds ==
    (/\ Done
     /\ DistinctNames
     /\ \A k \in 1..Len(specifications) : specifications[k].score >= 0
     /\ report.total_score_available > 0) =>
        /\ 0 <= report.achieved_score
        /\ report.achieved_score <= report.total_score_available
        /\ report.score.den > 0
        /\ 0 <= report.score.num
        /\ report.score.num <= report.score.den

C29_Witness ==
    /\ Done
    /\ DistinctNames
    /\ \A k \in 1..Len(specifications) : specifications[k].score >= 0
    /\ report.total_score_available = 2
    /\ report.achieved_score = 1
    /\ report.score = [num |-> 1, den |-> 2]

\* the response carries a numeric confidence outside [0.0, 1.0]
OutOfRange(i) ==
    /\ ~calls[i].raised
    /\ \E k \in 1..(Len(calls[i].data) - 1) :
          /\ calls[i].data[k] = "Confidence:"
          /\ calls[i].data[k + 1] \in { "1.5", "-0.2" }

\* C28: a response with a numeric confidence outside [0.0, 1.0] gives the
\* synthesized error Judgment (passed = false, confidence 0.0, reasoning
\* describing the error) even when the result line says PASS, and the handle
\* returned by that call is discarded: the previous handle goes to the next
\* requirement.
C28_OutOfRangeDiscarded ==
    \A i \in ScoringCalls :
        OutOfRange(i) =>
            /\ ~results[i - 1].passed
            /\ results[i - 1].confidence = 0
            /\ results[i - 1].reasoning = << "Validation error:", "ValidationError" >>
            /\ calls[i].message_history # EmptyHistory =>
                  /\ calls[i].all_messages # calls[i].message_history
                  /\ i < Len(calls) =>
                        calls[i + 1].message_history = calls[i].message_history
                  /\ i = Len(calls) => message_history = calls[i].message_history

C28_Witness ==
    /\ Done
    /\ OutOfRange(2)
    /\ calls[2].data = PassOutOfRange
    /\ calls[2].message_history = 1
    /\ calls[2].all_messages = 2
    /\ calls[3].message_history = 1
    /\ ~report.results[1].passed

\* the last of the backends 1..n constructed with an explicit base_url
LastUrlBefore(n) ==
    CHOOSE j \in 1..n :
        /\ backends[j].passed.base_url # None
        /\ \A k \in (j + 1)..n : backends[k].passed.base_url = None

\* the last of the backends 1..n that had a key, given or found
LastKeyBefore(n) ==
    CHOOSE j \in 1..n :
        /\ backends[j].api_key # None
        /\ \A k \in (j + 1)..n : backends[k].api_key = None

\* C30: constructing a backend with an explicit api_key or base_url writes the
\* value into the process environment (OPENAI_API_KEY, OPENAI_BASE_URL) and
\* never restores it, so a backend constructed later without explicit values
\* is configured with the values of the backends constructed before it.
C30_EnvironLeak ==
    /\ \A i \in 1..Len(backends) :
          backends[i].passed.api_key # None =>
              backends[i].api_key = backends[i].passed.api_key
    /\ (\E j \in 1..Len(backends) : backends[j].passed.base_url # None) =>
          environ.OPENAI_BASE_URL =
              backends[LastUrlBefore(Len(backends))].passed.base_url
    /\ (\E j \in 1..Len(backends) : backends[j].api_key # None) =>
          environ.OPENAI_API_KEY = backends[LastKeyBefore(Len(backends))].api_key
    /\ \A i \in 2..Len(backends) :
          /\ (/\ backends[i].passed.base_url = None
              /\ \E j \in 1..(i - 1) : backends[j].passed.base_url # None) =>
                 backends[i].model.base_url =
                     backends[LastUrlBefore(i - 1)].passed.base_url
          /\ (/\ backends[i].passed.api_key = None
              /\ environ.GITHUB_TOKEN = None
              /\ \E j \in 1..(i - 1) : backends[j].api_key # None) =>
                 backends[i].model.api_key = backends[LastKeyBefore(i - 1)].api_key

C30_Witness ==
    /\ Len(backends) = 2
    /\ environ.GITHUB_TOKEN = None
    /\ environ.NEBULAONE_API_KEY = None
    /\ environ.NEBULAONE_BASE_URL = None
    /\ backends[1].passed = [api_key |-> "k1", base_url |-> "u1"]
    /\ backends[2].passed = [api_key |-> None, base_url |-> None]
    /\ backends[2].model = [api_key |-> "k1", base_url |-> "u1"]
    /\ environ.OPENAI_API_KEY = "k1"
    /\ environ.OPENAI_BASE_URL = "u1"

====
